---- MODULE Spec2Model ----
(***************************************************************************)
(* Model of the credential store (utils/db_auth.py), the session helpers   *)
(* (utils/login.py) and the page dispatch of app.py.                       *)
(*                                                                         *)
(* Text that the code splits, joins or normalises (permission strings,     *)
(* page names) is a sequence of one-character strings.  Usernames and      *)
(* passwords are only compared, so they are plain strings.  A nullable     *)
(* value (last_login, the session username) is <<>> for NULL/None and      *)
(* <<v>> otherwise.                                                        *)
(*                                                                         *)
(* The extraction client (utils/azure_ai.py) and the calendar event store  *)
(* (utils/calendar_db.py) follow the claims on the credential store.       *)
(***************************************************************************)
EXTENDS Integers, Sequences, FiniteSets, TLC

VARIABLES
    users,      \* table users: the set of its rows (db_auth.py:18-26)
    started,    \* TRUE once the process has constructed UserDB
    now,        \* CURRENT_TIMESTAMP of the database
    thr,        \* per session: position inside a store operation, or its last result
    session,    \* per session: st.session_state, key -> value
    view,       \* per session: what the last script run rendered
    added,      \* history: username -> <<[password, permissions]>> of the add_user that
                \* made its row, <<>> once the row is deleted or re-permissioned
    stored,     \* history: username -> the permission list last written to its row
    loggedOut,  \* history: per session, TRUE from logout() to the next successful login
    bootstrapped, \* history: TRUE once init_database ran with a non-empty ADMIN_PASSWORD
    extractor,  \* the cached AzureOpenAICalendarExtractor (azure_ai.py:240-243)
    xret,       \* outcome of the last extract_calendar_events_from_image call
    requested,  \* history: TRUE iff that call sent a chat-completions request
    xcall,      \* history: the image of that call and the reply its request got
    events,     \* table calendar_events (calendar_db.py:28-39): whether it exists,
                \* and the set of its rows
    evret,      \* the last CalendarEventDB call and what it returned
    evlog,      \* history: numbers of add calls, deleted rows and console inserts
    conns       \* open duckdb connections: held by a running call, and lost, that
                \* is left open by a call that has ended

userVars == <<users, started, now, thr, session, view, added, stored, loggedOut, bootstrapped>>
extVars == <<extractor, xret, requested, xcall>>
evVars == <<events, evret, evlog>>
dbVars == <<conns>>
vars == <<userVars, extVars, evVars, dbVars>>

-----------------------------------------------------------------------------
(* Bounds and input sets *)

MaxTime == 1

Sessions == {"s1", "s2"}
Usernames == {"admin", "alice"}
Passwords == {"pw1", "pw2"}
Secrets == {"", "pw1", "pw2"}

calendar == <<"c", "a", "l", "e", "n", "d", "a", "r">>
image_generator == <<"i", "m", "a", "g", "e", "_", "g", "e", "n", "e", "r", "a", "t", "o", "r">>
Capabilities == {calendar, image_generator}

\* the permission lists a caller passes: one per subset of the tokens, in the order
\* the admin panel appends them (admin.py:61-65, 110-114)
PermLists == {<<>>, <<calendar>>, <<image_generator>>, <<calendar, image_generator>>}

NULL == <<>>
None == <<>>
Range(f) == {f[i] : i \in DOMAIN f}

-----------------------------------------------------------------------------
(* Pure helpers of db_auth.py *)

\* hashlib.sha256(password.encode()).hexdigest(): injective on the passwords used
_hash_password(password) == <<"sha256", password>>

\* ",".join(permissions)
RECURSIVE Join(_)
Join(list) ==
    IF list = <<>> THEN <<>>
    ELSE IF Len(list) = 1 THEN list[1]
    ELSE list[1] \o <<",">> \o Join(Tail(list))

\* str.split(","): "" splits into [""]
RECURSIVE Split(_)
Split(str) ==
    IF \A i \in 1..Len(str) : str[i] # ","
    THEN <<str>>
    ELSE LET k == CHOOSE i \in 1..Len(str) :
                      str[i] = "," /\ \A j \in 1..(i - 1) : str[j] # ","
         IN  <<SubSeq(str, 1, k - 1)>> \o Split(SubSeq(str, k + 1, Len(str)))

ParsePermissionsNoGuard(str) == Split(str)

\* result[1].split(",") if result[1] else []
ParsePermissions(str) == IF str # <<>> THEN Split(str) ELSE <<>>

-----------------------------------------------------------------------------
(* SQL statements of db_auth.py on the table value db, a set of rows.  The   *)
(* table is declared with username VARCHAR PRIMARY KEY (db_auth.py:19-26);   *)
(* the key is enforced by the INSERT statement, not by the representation.   *)

NewRow(username, password_hash, permissions_str, t) ==
    [username |-> username, password_hash |-> password_hash,
     permissions |-> permissions_str, created_at |-> t, last_login |-> NULL]

\* SELECT username FROM users WHERE username = ?  (fetchone() is not None)
SelectByName(db, username) == \E r \in db : r.username = username

SelectByCredentialsAnyPassword(db, username, password_hash) ==
    IF \E r \in db : r.username = username
    THEN LET r == CHOOSE r \in db : r.username = username
         IN  <<[username |-> r.username, permissions |-> r.permissions]>>
    ELSE <<>>

\* SELECT username, permissions FROM users WHERE username = ? AND password_hash = ?
\* (fetchone(): <<>> when no row matches, else <<row>>)
SelectByCredentials(db, username, password_hash) ==
    IF \E r \in db : r.username = username /\ r.password_hash = password_hash
    THEN LET r == CHOOSE r \in db :
                      r.username = username /\ r.password_hash = password_hash
         IN  <<[username |-> r.username, permissions |-> r.permissions]>>
    ELSE <<>>

InsertRowNoKey(db, username, password_hash, permissions_str, t) ==
    [ok |-> TRUE, db |-> db \cup {NewRow(username, password_hash, permissions_str, t)}]

\* INSERT INTO users (username, password_hash, permissions) VALUES (?, ?, ?)
\* created_at takes DEFAULT CURRENT_TIMESTAMP, last_login stays NULL; the
\* statement raises on a duplicate key (ok = FALSE) and then changes nothing
InsertRow(db, username, password_hash, permissions_str, t) ==
    IF \E r \in db : r.username = username
    THEN [ok |-> FALSE, db |-> db]
    ELSE [ok |-> TRUE,
          db |-> db \cup {NewRow(username, password_hash, permissions_str, t)}]

UpdateLastLoginAll(db, username, t) == {[r EXCEPT !.last_login = <<t>>] : r \in db}

\* UPDATE users SET last_login = CURRENT_TIMESTAMP WHERE username = ?
UpdateLastLogin(db, username, t) ==
    {IF r.username = username THEN [r EXCEPT !.last_login = <<t>>] ELSE r : r \in db}

\* UPDATE users SET permissions = ? WHERE username = ?
UpdatePermissionsRow(db, username, permissions_str) ==
    {IF r.username = username THEN [r EXCEPT !.permissions = permissions_str] ELSE r :
        r \in db}

\* DELETE FROM users WHERE username = ?
DeleteRow(db, username) == {r \in db : r.username # username}

\* ORDER BY username, on the usernames of the model
UsernameOrder == <<"admin", "alice">>

RECURSIVE RowsInOrder(_, _)
RowsInOrder(db, names) ==
    IF names = <<>> THEN <<>>
    ELSE LET here == {r \in db : r.username = Head(names)}
         IN  IF here = {}
             THEN RowsInOrder(db, Tail(names))
             ELSE LET r == CHOOSE r \in here : TRUE
                  IN  <<r>> \o RowsInOrder(db \ {r}, names)

\* SELECT username, permissions, created_at, last_login FROM users ORDER BY username
\* and the dicts get_all_users builds from the rows
AllUsersList(db) ==
    LET results == RowsInOrder(db, UsernameOrder)
    IN  [i \in 1..Len(results) |->
            [username |-> results[i].username,
             permissions |-> ParsePermissions(results[i].permissions),
             created_at |-> results[i].created_at,
             last_login |-> results[i].last_login]]

EnsureAdminUserNoInsert(db, admin_password, t) == db

EnsureAdminUserReplaces(db, admin_password, t) ==
    IF admin_password # ""
    THEN {r \in db : r.username # "admin"}
           \cup {NewRow("admin", _hash_password(admin_password),
                        Join(<<calendar, image_generator>>), t)}
    ELSE db

\* _ensure_admin_user: insert admin from ADMIN_PASSWORD when no admin row exists
EnsureAdminUser(db, admin_password, t) ==
    IF ~SelectByName(db, "admin") /\ admin_password # ""
    THEN InsertRow(db, "admin", _hash_password(admin_password),
                   Join(<<calendar, image_generator>>), t).db
    ELSE db

\* the rows of one username (one at most while the key holds)
RowsOf(db, username) == {r \in db : r.username = username}

-----------------------------------------------------------------------------
(* Values a store operation returns *)

RetNone == [kind |-> "none"]
RetBool(b) == [kind |-> "bool", val |-> b]
RetUser(username, permissions) ==
    [kind |-> "user", username |-> username, permissions |-> permissions]
RetList(l) == [kind |-> "list", val |-> l]
Raise(exc) == [kind |-> "raise", exc |-> exc]

Idle(op, ret) == [pc |-> "idle", op |-> op, ret |-> ret]

\* conn = duckdb.connect(self.db_path)
Connect(c) == [c EXCEPT !.held = @ + 1]

\* conn.close()
Close(c) == [c EXCEPT !.held = @ - 1]

\* the call ends with its connection still open
Abandon(c) == [held |-> c.held - 1, lost |-> c.lost + 1]

\* st.session_state[key] = value
SetKey(ss, key, value) == [k \in DOMAIN ss \cup {key} |-> IF k = key THEN value ELSE ss[k]]

NoSession == [k \in {} |-> None]
Rerun == [screen |-> "rerun"]

-----------------------------------------------------------------------------
(* Process start: get_user_db() constructs UserDB, which runs init_database *)

Init ==
    /\ users = {}
    /\ started = FALSE
    /\ now = 0
    /\ thr = [s \in Sessions |-> Idle("none", RetNone)]
    /\ session = [s \in Sessions |-> NoSession]
    /\ view = [s \in Sessions |-> Rerun]
    /\ added = [u \in Usernames |-> <<>>]
    /\ stored = [u \in Usernames |-> <<>>]
    /\ loggedOut = [s \in Sessions |-> FALSE]
    /\ bootstrapped = FALSE
    /\ extractor = [built |-> FALSE]
    /\ xret = RetNone
    /\ requested = FALSE
    /\ xcall = RetNone
    /\ events = [exists |-> FALSE, rows |-> {}]
    /\ evret = [op |-> "none", ret |-> RetNone]
    /\ evlog = [add_calls |-> 0, deleted |-> 0, console |-> 0]
    /\ conns = [held |-> 0, lost |-> 0]

\* load_dotenv() + UserDB.__init__ -> init_database: CREATE TABLE IF NOT EXISTS,
\* then _ensure_admin_user with ADMIN_PASSWORD = admin_password ("" = unset or
\* empty).  A (re)start drops every session and every running call.
Start(admin_password) ==
    /\ started' = TRUE
    /\ users' = EnsureAdminUser(users, admin_password, now)
    /\ thr' = [s \in Sessions |-> Idle("none", RetNone)]
    /\ session' = [s \in Sessions |-> NoSession]
    /\ view' = [s \in Sessions |-> Rerun]
    /\ loggedOut' = [s \in Sessions |-> FALSE]
    /\ bootstrapped' = (bootstrapped \/ admin_password # "")
    /\ stored' = IF users' # users
                 THEN [stored EXCEPT !["admin"] = <<calendar, image_generator>>]
                 ELSE stored
    /\ extractor' = [built |-> FALSE]
    /\ xret' = RetNone
    /\ requested' = FALSE
    /\ xcall' = RetNone
    /\ conns' = IF started THEN [held |-> 0, lost |-> 0] ELSE Close(Connect(conns))
    /\ UNCHANGED <<now, added, evVars>>

MaxLost == 2

\* get_user_db() -> UserDB() -> init_database, and a statement of it raises
\* (the CREATE TABLE, or the SELECT or the INSERT of _ensure_admin_user): the
\* exception leaves init_database before conn.close() (db_auth.py:31), no
\* UserDB is constructed, and the script run of session s ends with the error
InitDatabaseRaises(s) ==
    /\ ~started
    /\ conns.lost < MaxLost
    /\ conns' = Abandon(Connect(conns))
    /\ thr' = [thr EXCEPT ![s] = Idle("init_database", Raise("Exception"))]
    /\ UNCHANGED <<extVars, evVars>>
    /\ UNCHANGED <<users, started, now, session, view, added, stored, loggedOut,
                   bootstrapped>>

\* the interpreter finalises a connection object nothing refers to any more
CollectConnection ==
    /\ conns.lost > 0
    /\ conns' = [conns EXCEPT !.lost = @ - 1]
    /\ UNCHANGED <<userVars, extVars, evVars>>

\* the database clock advances
Tick ==
    /\ now < MaxTime
    /\ now' = now + 1
    /\ UNCHANGED <<extVars, evVars, dbVars>>
    /\ UNCHANGED <<users, started, thr, session, view, added, stored, loggedOut,
                   bootstrapped>>

-----------------------------------------------------------------------------
(* UserDB.add_user.  Each conn.execute is a statement the database runs on   *)
(* its own; the SELECT and the INSERT are separate steps.                    *)

AddUserSelectUpsert(s, username, password, permissions) ==
    /\ started
    /\ thr[s].pc = "idle"
    /\ users' = DeleteRow(users, username)
                  \cup {NewRow(username, _hash_password(password), Join(permissions), now)}
    /\ thr' = [thr EXCEPT ![s] = Idle("add_user", RetBool(TRUE))]
    /\ added' = [added EXCEPT ![username] =
                    <<[password |-> password, permissions |-> permissions]>>]
    /\ stored' = [stored EXCEPT ![username] = permissions]
    /\ UNCHANGED <<extVars, evVars, dbVars>>
    /\ UNCHANGED <<started, now, session, view, loggedOut, bootstrapped>>

\* conn = duckdb.connect(...); existing = SELECT ...; if existing: return False
AddUserSelect(s, username, password, permissions) ==
    /\ started
    /\ thr[s].pc = "idle"
    /\ IF SelectByName(users, username)
       THEN thr' = [thr EXCEPT ![s] = Idle("add_user", RetBool(FALSE))]
       ELSE thr' = [thr EXCEPT ![s] = [pc |-> "add_user_insert", username |-> username,
                                       password |-> password,
                                       permissions |-> permissions]]
    /\ conns' = IF SelectByName(users, username) THEN Close(Connect(conns))
                ELSE Connect(conns)
    /\ UNCHANGED <<extVars, evVars>>
    /\ UNCHANGED <<users, started, now, session, view, added, stored, loggedOut,
                   bootstrapped>>

\* INSERT ...; return True / except Exception: return False
AddUserInsert(s) ==
    /\ thr[s].pc = "add_user_insert"
    /\ LET r == InsertRow(users, thr[s].username, _hash_password(thr[s].password),
                          Join(thr[s].permissions), now)
       IN  /\ users' = r.db
           /\ thr' = [thr EXCEPT ![s] = Idle("add_user", RetBool(r.ok))]
           /\ added' = IF r.ok
                       THEN [added EXCEPT ![thr[s].username] =
                               <<[password |-> thr[s].password,
                                  permissions |-> thr[s].permissions]>>]
                       ELSE added
           /\ stored' = IF r.ok
                        THEN [stored EXCEPT ![thr[s].username] = thr[s].permissions]
                        ELSE stored
    /\ conns' = Close(conns)
    /\ UNCHANGED <<extVars, evVars>>
    /\ UNCHANGED <<started, now, session, view, loggedOut, bootstrapped>>

-----------------------------------------------------------------------------
(* UserDB.authenticate, called directly ("api") or by the login form         *)

AuthenticateSelectStampsAttempt(s, username, password, caller) ==
    /\ started
    /\ thr[s].pc = "idle"
    /\ LET result == SelectByCredentials(users, username, _hash_password(password))
       IN  IF result = <<>>
           THEN /\ thr' = [thr EXCEPT ![s] = Idle("authenticate", RetNone)]
                /\ view' = IF caller = "login"
                           THEN [view EXCEPT ![s] = [screen |-> "login", msg |-> "invalid"]]
                           ELSE view
           ELSE /\ thr' = [thr EXCEPT ![s] = [pc |-> "authenticate_update",
                                              username |-> username,
                                              result |-> result[1],
                                              caller |-> caller]]
                /\ view' = view
    /\ users' = UpdateLastLogin(users, username, now)
    /\ conns' = IF SelectByCredentials(users, username, _hash_password(password)) = <<>>
                THEN Close(Connect(conns))
                ELSE Connect(conns)
    /\ UNCHANGED <<extVars, evVars>>
    /\ UNCHANGED <<started, now, session, added, stored, loggedOut, bootstrapped>>

\* conn = duckdb.connect(...); result = SELECT ... WHERE username = ? AND
\* password_hash = ?; no row: return None, and the login form then shows
\* "Invalid username or password" (login.py:26-27)
AuthenticateSelect(s, username, password, caller) ==
    /\ started
    /\ thr[s].pc = "idle"
    /\ LET result == SelectByCredentials(users, username, _hash_password(password))
       IN  IF result = <<>>
           THEN /\ thr' = [thr EXCEPT ![s] = Idle("authenticate", RetNone)]
                /\ view' = IF caller = "login"
                           THEN [view EXCEPT ![s] = [screen |-> "login", msg |-> "invalid"]]
                           ELSE view
           ELSE /\ thr' = [thr EXCEPT ![s] = [pc |-> "authenticate_update",
                                              username |-> username,
                                              result |-> result[1],
                                              caller |-> caller]]
                /\ view' = view
    /\ conns' = IF SelectByCredentials(users, username, _hash_password(password)) = <<>>
                THEN Close(Connect(conns))
                ELSE Connect(conns)
    /\ UNCHANGED <<extVars, evVars>>
    /\ UNCHANGED <<users, started, now, session, added, stored, loggedOut, bootstrapped>>

\* UPDATE users SET last_login ...; return {"username": ..., "permissions": ...};
\* the login form then stores both in the session and reruns (login.py:20-24)
AuthenticateUpdate(s) ==
    /\ thr[s].pc = "authenticate_update"
    /\ users' = UpdateLastLogin(users, thr[s].username, now)
    /\ LET user_info == RetUser(thr[s].result.username,
                                ParsePermissions(thr[s].result.permissions))
       IN  /\ thr' = [thr EXCEPT ![s] = Idle("authenticate", user_info)]
           /\ IF thr[s].caller = "login"
              THEN /\ session' = [session EXCEPT ![s] =
                          SetKey(SetKey(session[s], "username", <<user_info.username>>),
                                 "permissions", user_info.permissions)]
                   /\ view' = [view EXCEPT ![s] = Rerun]
                   /\ loggedOut' = [loggedOut EXCEPT ![s] = FALSE]
              ELSE UNCHANGED <<session, view, loggedOut>>
    /\ conns' = Close(conns)
    /\ UNCHANGED <<extVars, evVars>>
    /\ UNCHANGED <<started, now, added, stored, bootstrapped>>

-----------------------------------------------------------------------------
(* UserDB.update_permissions, delete_user, get_all_users: one statement each *)

\* result = UPDATE ...; return result.fetchone() is not None
\* (the result of an UPDATE is one row holding the count of changed rows)
UpdatePermissions(s, username, permissions) ==
    /\ started
    /\ thr[s].pc = "idle"
    /\ users' = UpdatePermissionsRow(users, username, Join(permissions))
    /\ thr' = [thr EXCEPT ![s] = Idle("update_permissions", RetBool(TRUE))]
    /\ added' = [added EXCEPT ![username] = <<>>]
    /\ stored' = IF SelectByName(users, username)
                 THEN [stored EXCEPT ![username] = permissions]
                 ELSE stored
    /\ UNCHANGED <<extVars, evVars, dbVars>>
    /\ UNCHANGED <<started, now, session, view, loggedOut, bootstrapped>>

DeleteUserUnprotected(s, username) ==
    /\ started
    /\ thr[s].pc = "idle"
    /\ users' = DeleteRow(users, username)
    /\ thr' = [thr EXCEPT ![s] = Idle("delete_user", RetBool(TRUE))]
    /\ added' = [added EXCEPT ![username] = <<>>]
    /\ stored' = [stored EXCEPT ![username] = <<>>]
    /\ UNCHANGED <<extVars, evVars, dbVars>>
    /\ UNCHANGED <<started, now, session, view, loggedOut, bootstrapped>>

\* if username == "admin": return False; else DELETE ...; return True
DeleteUser(s, username) ==
    /\ started
    /\ thr[s].pc = "idle"
    /\ IF username = "admin"
       THEN /\ thr' = [thr EXCEPT ![s] = Idle("delete_user", RetBool(FALSE))]
            /\ UNCHANGED <<users, added, stored>>
       ELSE /\ users' = DeleteRow(users, username)
            /\ thr' = [thr EXCEPT ![s] = Idle("delete_user", RetBool(TRUE))]
            /\ added' = [added EXCEPT ![username] = <<>>]
            /\ stored' = [stored EXCEPT ![username] = <<>>]
    /\ UNCHANGED <<extVars, evVars, dbVars>>
    /\ UNCHANGED <<started, now, session, view, loggedOut, bootstrapped>>

GetAllUsers(s) ==
    /\ started
    /\ thr[s].pc = "idle"
    /\ thr' = [thr EXCEPT ![s] = Idle("get_all_users", RetList(AllUsersList(users)))]
    /\ UNCHANGED <<extVars, evVars, dbVars>>
    /\ UNCHANGED <<users, started, now, session, view, added, stored, loggedOut,
                   bootstrapped>>

-----------------------------------------------------------------------------
(* utils/login.py: the session helpers *)

UpperLetters == <<"A", "B", "C", "D", "E", "F", "G", "H", "I", "J", "K", "L", "M",
                  "N", "O", "P", "Q", "R", "S", "T", "U", "V", "W", "X", "Y", "Z">>
LowerLetters == <<"a", "b", "c", "d", "e", "f", "g", "h", "i", "j", "k", "l", "m",
                  "n", "o", "p", "q", "r", "s", "t", "u", "v", "w", "x", "y", "z">>

\* str.lower() on one character: the letters A-Z map to a-z, the rest to itself
LowerOfUpper == [c \in Range(UpperLetters) |->
                    LowerLetters[CHOOSE i \in DOMAIN UpperLetters : UpperLetters[i] = c]]
LowerChar(c) == IF c \in DOMAIN LowerOfUpper THEN LowerOfUpper[c] ELSE c

\* page_name.lower().replace(" ", "_")
NormalisePageName(page_name) ==
    [i \in DOMAIN page_name |->
        IF LowerChar(page_name[i]) = " " THEN "_" ELSE LowerChar(page_name[i])]

\* st.session_state.get(key)
SessionGet(ss, key) == IF key \in DOMAIN ss THEN ss[key] ELSE None

check_permissionAdminBypass(ss, page_name) ==
    \/ SessionGet(ss, "username") = <<"admin">>
    \/ /\ "permissions" \in DOMAIN ss
       /\ NormalisePageName(page_name) \in Range(ss["permissions"])

\* if 'permissions' not in st.session_state: return False
\* return page_name.lower().replace(" ", "_") in st.session_state.permissions
check_permission(ss, page_name) ==
    IF "permissions" \notin DOMAIN ss
    THEN FALSE
    ELSE NormalisePageName(page_name) \in Range(ss["permissions"])

is_adminNeedsPermissions(ss) ==
    /\ SessionGet(ss, "username") = <<"admin">>
    /\ SessionGet(ss, "permissions") # <<>>

\* return st.session_state.get("username") == "admin"
is_admin(ss) == SessionGet(ss, "username") = <<"admin">>

logoutKeepsPermissions(ss) == [k \in DOMAIN ss \ {"username"} |-> ss[k]]

\* for key in list(st.session_state.keys()): del st.session_state[key]
logout(ss) == [k \in DOMAIN ss \ DOMAIN ss |-> ss[k]]

-----------------------------------------------------------------------------
(* app.py: one script run of main() per user interaction *)

PageNames == {"Calendar", "Image Generator", "Admin Panel", "Calendar Events"}

\* app.py:26-29
InitSessionState(ss) ==
    LET ss1 == IF "username" \notin DOMAIN ss THEN SetKey(ss, "username", None) ELSE ss
    IN  IF "permissions" \notin DOMAIN ss1 THEN SetKey(ss1, "permissions", <<>>) ELSE ss1

AvailablePagesAllByPermission(ss) ==
    (IF check_permission(ss, calendar) THEN <<"Calendar">> ELSE <<>>)
    \o (IF check_permission(ss, image_generator) THEN <<"Image Generator">> ELSE <<>>)
    \o (IF is_admin(ss) /\ ss["permissions"] # <<>>
        THEN <<"Admin Panel", "Calendar Events">> ELSE <<>>)

\* app.py:45-52
AvailablePages(ss) ==
    (IF check_permission(ss, calendar) THEN <<"Calendar">> ELSE <<>>)
    \o (IF check_permission(ss, image_generator) THEN <<"Image Generator">> ELSE <<>>)
    \o (IF is_admin(ss) THEN <<"Admin Panel", "Calendar Events">> ELSE <<>>)

\* require_auth() of utils.login, which admin_page calls first: passes when the
\* session has a username
require_auth(ss) == SessionGet(ss, "username") # None

\* admin_page (page_modules/admin.py:6-11): what the handler renders
admin_page(ss) ==
    IF ~require_auth(ss) THEN "stopped"
    ELSE IF ~is_admin(ss) THEN "denied"
    ELSE "admin_panel"

\* calendar_events_page (calendar_events.py:10-14)
calendar_events_page(ss) == IF ~is_admin(ss) THEN "denied" ELSE "calendar_events"

\* calendar_page and image_generator_page check nothing
calendar_page == "calendar"
image_generator_page == "image_generator"

\* app.py:65-74: the handler main calls for page, and what it renders
Dispatch(page, ss, available_pages) ==
    IF page = <<"Calendar">> THEN calendar_page
    ELSE IF page = <<"Image Generator">> THEN image_generator_page
    ELSE IF page = <<"Admin Panel">> THEN admin_page(ss)
    ELSE IF page = <<"Calendar Events">> THEN calendar_events_page(ss)
    ELSE IF available_pages = <<>> THEN "no_pages"
    ELSE "nothing"

MainDispatchesChoice(s, choice) ==
    /\ started
    /\ thr[s].pc = "idle"
    /\ LET ss == InitSessionState(session[s])
           available_pages == AvailablePages(ss)
           page == <<choice>>
       IN  /\ session' = [session EXCEPT ![s] = ss]
           /\ view' = [view EXCEPT ![s] =
                         IF ss["username"] = None
                         THEN [screen |-> "login", msg |-> "none"]
                         ELSE [screen |-> "app", available_pages |-> available_pages,
                               page |-> page,
                               ran |-> Dispatch(page, ss, available_pages)]]
    /\ UNCHANGED <<extVars, evVars, dbVars>>
    /\ UNCHANGED <<users, started, now, thr, added, stored, loggedOut, bootstrapped>>

MainRefreshes(s, choice) ==
    /\ started
    /\ thr[s].pc = "idle"
    /\ LET ss0 == InitSessionState(session[s])
           ss == IF /\ ss0["username"] # None
                    /\ \E r \in users : r.username = ss0["username"][1]
                 THEN SetKey(ss0, "permissions",
                             ParsePermissions(
                                (CHOOSE r \in users :
                                    r.username = ss0["username"][1]).permissions))
                 ELSE ss0
           available_pages == AvailablePages(ss)
           page == IF available_pages = <<>> THEN None
                   ELSE IF choice \in Range(available_pages) THEN <<choice>>
                   ELSE <<available_pages[1]>>
       IN  /\ session' = [session EXCEPT ![s] = ss]
           /\ view' = [view EXCEPT ![s] =
                         IF ss["username"] = None
                         THEN [screen |-> "login", msg |-> "none"]
                         ELSE [screen |-> "app", available_pages |-> available_pages,
                               page |-> page,
                               ran |-> Dispatch(page, ss, available_pages)]]
    /\ UNCHANGED <<extVars, evVars, dbVars>>
    /\ UNCHANGED <<users, started, now, thr, added, stored, loggedOut, bootstrapped>>

\* a script run with no form submitted and no button pressed; choice is the
\* option the user has selected in the st.radio (the first one by default).
\* view.page is the page whose handler the run calls (app.py:65-72).
Main(s, choice) ==
    /\ started
    /\ thr[s].pc = "idle"
    /\ LET ss == InitSessionState(session[s])
           available_pages == AvailablePages(ss)
           page == IF available_pages = <<>> THEN None
                   ELSE IF choice \in Range(available_pages) THEN <<choice>>
                   ELSE <<available_pages[1]>>
       IN  /\ session' = [session EXCEPT ![s] = ss]
           /\ view' = [view EXCEPT ![s] =
                         IF ss["username"] = None
                         THEN [screen |-> "login", msg |-> "none"]
                         ELSE [screen |-> "app", available_pages |-> available_pages,
                               page |-> page,
                               ran |-> Dispatch(page, ss, available_pages)]]
    /\ UNCHANGED <<extVars, evVars, dbVars>>
    /\ UNCHANGED <<users, started, now, thr, added, stored, loggedOut, bootstrapped>>

LoginSubmitTrusting(s, username, password) ==
    /\ view[s].screen = "login"
    /\ IF username # "" /\ password # ""
       THEN AuthenticateSelect(s, username, password, "login")
       ELSE /\ started
            /\ thr[s].pc = "idle"
            /\ view' = [view EXCEPT ![s] = [screen |-> "login", msg |-> "missing"]]
            /\ session' = [session EXCEPT ![s] = SetKey(@, "username", <<username>>)]
            /\ UNCHANGED <<extVars, evVars, dbVars>>
            /\ UNCHANGED <<users, started, now, thr, added, stored, loggedOut,
                           bootstrapped>>

\* a script run with the login form submitted (login.py:17-30)
LoginSubmit(s, username, password) ==
    /\ view[s].screen = "login"
    /\ IF username # "" /\ password # ""
       THEN AuthenticateSelect(s, username, password, "login")
       ELSE /\ started
            /\ thr[s].pc = "idle"
            /\ view' = [view EXCEPT ![s] = [screen |-> "login", msg |-> "missing"]]
            /\ UNCHANGED <<extVars, evVars, dbVars>>
            /\ UNCHANGED <<users, started, now, thr, session, added, stored, loggedOut,
                           bootstrapped>>

\* a script run with the Logout button pressed (app.py:61-62): logout() empties
\* the session state and st.rerun() ends the run before any page is dispatched
Logout(s) ==
    /\ started
    /\ thr[s].pc = "idle"
    /\ view[s].screen = "app"
    /\ session' = [session EXCEPT ![s] = logout(session[s])]
    /\ view' = [view EXCEPT ![s] = Rerun]
    /\ loggedOut' = [loggedOut EXCEPT ![s] = TRUE]
    /\ UNCHANGED <<extVars, evVars, dbVars>>
    /\ UNCHANGED <<users, started, now, thr, added, stored, bootstrapped>>

-----------------------------------------------------------------------------
(* The credential store driven by one caller *)

Caller == "s1"

\* every operation with every input of the model; the clock stands still
NextStore ==
    \/ \E secret \in Secrets : Start(secret)
    \/ \E u \in Usernames, p \in Passwords, perms \in PermLists :
          AddUserSelect(Caller, u, p, perms)
    \/ AddUserInsert(Caller)
    \/ \E u \in Usernames, p \in Passwords : AuthenticateSelect(Caller, u, p, "api")
    \/ AuthenticateUpdate(Caller)
    \/ \E u \in Usernames, perms \in PermLists : UpdatePermissions(Caller, u, perms)
    \/ \E u \in Usernames : DeleteUser(Caller, u)
    \/ GetAllUsers(Caller)

SpecStore == Init /\ [][NextStore]_vars

\* the same operations while the clock advances, so that created_at and
\* last_login differ between rows; fewer permission lists
ClockPermLists == {<<calendar>>, <<calendar, image_generator>>}

NextClock ==
    \/ \E secret \in Secrets : Start(secret)
    \/ Tick
    \/ \E u \in Usernames, p \in Passwords, perms \in ClockPermLists :
          AddUserSelect(Caller, u, p, perms)
    \/ AddUserInsert(Caller)
    \/ \E u \in Usernames, p \in Passwords : AuthenticateSelect(Caller, u, p, "api")
    \/ AuthenticateUpdate(Caller)
    \/ \E u \in Usernames, perms \in ClockPermLists : UpdatePermissions(Caller, u, perms)
    \/ \E u \in Usernames : DeleteUser(Caller, u)

SpecClock == Init /\ [][NextClock]_vars

(* ------------------------------------------------------------------------- *)
(* The application: one browser session, and an operator who edits the     *)
(* users table meanwhile (update_permissions accepts any username, and the   *)
(* admin panel's SQL console reaches every row).                             *)
(* ------------------------------------------------------------------------- *)

Browser == "s1"
Operator == "s2"
LoginNames == Usernames \cup {""}
LoginPasswords == {"", "pw1", "pw2"}
AppSecrets == {"pw1"}
AppPassword == "pw2"

NextApp ==
    \/ \E secret \in AppSecrets : Start(secret)
    \/ \E choice \in PageNames : Main(Browser, choice)
    \/ \E u \in LoginNames, p \in LoginPasswords : LoginSubmit(Browser, u, p)
    \/ AuthenticateUpdate(Browser)
    \/ Logout(Browser)
    \/ \E perms \in PermLists : AddUserSelect(Operator, "alice", AppPassword, perms)
    \/ AddUserInsert(Operator)
    \/ \E u \in Usernames, perms \in PermLists : UpdatePermissions(Operator, u, perms)
    \/ \E u \in Usernames : DeleteUser(Operator, u)

SpecApp == Init /\ [][NextApp]_vars

(* ------------------------------------------------------------------------- *)
(* Two sessions add and delete users at once: the statements of their calls  *)
(* interleave.                                                               *)
(* ------------------------------------------------------------------------- *)

RaceSecrets == {"", "pw1"}
RacePermLists == {<<>>, <<calendar>>}

NextRace ==
    \/ \E secret \in RaceSecrets : Start(secret)
    \/ \E s \in Sessions, u \in Usernames, p \in Passwords, perms \in RacePermLists :
          AddUserSelect(s, u, p, perms)
    \/ \E s \in Sessions : AddUserInsert(s)
    \/ \E s \in Sessions, u \in Usernames : DeleteUser(s, u)

SpecRace == Init /\ [][NextRace]_vars

-----------------------------------------------------------------------------
(* Claims on the credential store *)

\* C1: a user made by a successful add_user(u, p, perms), not deleted or
\* re-permissioned since, authenticates with p and gets username u and a
\* permission set equal to perms; with any other password authenticate returns
\* absent.
C1_AuthenticateAfterAddUser ==
    [][\A u \in Usernames, q \in Passwords :
         added[u] # <<>> =>
           /\ (AuthenticateSelect(Caller, u, q, "api") /\ q # added[u][1].password)
                 => thr'[Caller] = Idle("authenticate", RetNone)
           /\ (AuthenticateSelect(Caller, u, q, "api") /\ q = added[u][1].password)
                 => thr'[Caller].pc = "authenticate_update"
           /\ (AuthenticateUpdate(Caller) /\ thr[Caller].username = u)
                 => /\ thr'[Caller].pc = "idle"
                    /\ thr'[Caller].ret.kind = "user"
                    /\ thr'[Caller].ret.username = u
                    /\ Range(thr'[Caller].ret.permissions)
                         = Range(added[u][1].permissions)]_vars

C1_Witness ==
    /\ added["alice"] = <<[password |-> "pw2",
                           permissions |-> <<calendar, image_generator>>]>>
    /\ thr[Caller] = Idle("authenticate", RetUser("alice", <<calendar, image_generator>>))

\* C2: add_user with a username that already has a record returns failure and
\* leaves every record as it was.
C2_AddUserExistingFails ==
    [][\A u \in Usernames :
         SelectByName(users, u) =>
            \A p \in Passwords, perms \in ClockPermLists :
               AddUserSelect(Caller, u, p, perms)
                  => /\ thr'[Caller] = Idle("add_user", RetBool(FALSE))
                     /\ users' = users]_vars

C2_Witness ==
    /\ thr[Caller] = Idle("add_user", RetBool(FALSE))
    /\ \E r \in users : r.username = "alice" /\ r.last_login # NULL /\ r.created_at < now

\* C3: delete_user("admin") returns failure in every state and changes no record.
C3_DeleteAdminFails ==
    [][DeleteUser(Caller, "admin")
         => /\ thr'[Caller] = Idle("delete_user", RetBool(FALSE))
            /\ users' = users]_vars

C3_Witness ==
    /\ thr[Caller] = Idle("delete_user", RetBool(FALSE))
    /\ SelectByName(users, "admin")

\* C4: once init_database has run with a non-empty ADMIN_PASSWORD, an admin
\* record exists in every later state.
C4_AdminPersists == bootstrapped => SelectByName(users, "admin")

C4_Witness ==
    /\ bootstrapped
    /\ thr[Caller] = Idle("delete_user", RetBool(TRUE))
    /\ \E r \in users : r.username = "admin" /\ r.permissions = <<>>

\* C6: what add_user or update_permissions stored for a user is what authenticate
\* and get_all_users read back, as a set; the empty set reads back empty, with no
\* empty-string token.
C6_PermissionRoundTrip ==
    [][/\ GetAllUsers(Caller)
          => \A i \in DOMAIN thr'[Caller].ret.val :
                LET user == thr'[Caller].ret.val[i]
                IN  /\ Range(user.permissions) = Range(stored[user.username])
                    /\ <<>> \notin Range(user.permissions)
       /\ AuthenticateUpdate(Caller)
          => /\ Range(thr'[Caller].ret.permissions) = Range(stored[thr[Caller].username])
             /\ <<>> \notin Range(thr'[Caller].ret.permissions)]_vars

C6_Witness ==
    /\ thr[Caller].pc = "idle"
    /\ thr[Caller].op = "get_all_users"
    /\ \E i \in DOMAIN thr[Caller].ret.val :
          /\ thr[Caller].ret.val[i].username = "alice"
          /\ thr[Caller].ret.val[i].permissions = <<>>
    /\ \E i \in DOMAIN thr[Caller].ret.val :
          /\ thr[Caller].ret.val[i].username = "admin"
          /\ thr[Caller].ret.val[i].permissions = <<calendar, image_generator>>

\* C5: the users table holds at most one record per username in every state,
\* also when add_user calls of two sessions interleave between the existence
\* check and the INSERT: an INSERT succeeds exactly when no record of that
\* username exists at that moment, and leaves exactly one.
C5_OneRecordPerUsername ==
    /\ [](\A r1 \in users, r2 \in users : r1.username = r2.username => r1 = r2)
    /\ [][\A s \in Sessions :
            AddUserInsert(s)
               => /\ thr'[s].ret = RetBool(~SelectByName(users, thr[s].username))
                  /\ Cardinality(RowsOf(users', thr[s].username)) = 1]_vars

C5_Witness ==
    /\ thr["s1"] = Idle("add_user", RetBool(TRUE))
    /\ added["alice"] # <<>>
    /\ added["alice"][1].password = "pw1"
    /\ thr["s2"].pc = "add_user_insert"
    /\ thr["s2"].username = "alice"
    /\ thr["s2"].password = "pw2"

-----------------------------------------------------------------------------
(* Claims on the session helpers and the page dispatch *)

\* C7: is_admin() is true exactly when the session username is the literal
\* admin; the session's permission set has no part in it, and it is false when
\* no session exists.
C7_IsAdminIffUsername ==
    \A s \in Sessions :
       /\ is_admin(session[s])
             <=> ("username" \in DOMAIN session[s] /\ session[s]["username"] = <<"admin">>)
       /\ \A perms \in PermLists :
             is_admin(SetKey(session[s], "permissions", perms)) = is_admin(session[s])
       /\ (session[s] = NoSession => ~is_admin(session[s]))

C7_Witness ==
    /\ view[Browser].screen = "app"
    /\ session[Browser]["username"] = <<"admin">>
    /\ session[Browser]["permissions"] = <<>>

\* C8: check_permission(capability) is true exactly when the capability token
\* is in the session's permission set, for the admin session too, and false
\* when no session exists.
C8_CheckPermissionIffPresent ==
    \A s \in Sessions, cap \in Capabilities :
       check_permission(session[s], cap)
          <=> ("permissions" \in DOMAIN session[s]
                 /\ cap \in Range(session[s]["permissions"]))

C8_Witness ==
    /\ view[Browser].screen = "app"
    /\ session[Browser]["username"] = <<"admin">>
    /\ session[Browser]["permissions"] = <<image_generator>>
    /\ "Calendar" \notin Range(view[Browser].available_pages)

\* C9 as claimed: an admin session is offered every capability-gated page and
\* every admin-gated page, whatever permission set is stored for admin.
C9_AdminOfferedEveryPage ==
    \A s \in Sessions :
       (view[s].screen = "app" /\ session[s]["username"] = <<"admin">>)
          => PageNames \subseteq Range(view[s].available_pages)

\* C9 as amended: an admin session is offered the admin-gated pages whatever its
\* permission set, and a capability-gated page exactly when the capability is in
\* the permission set of the session; the run dispatches the offered page that
\* is selected.
C9_AdminPagesByIdentity ==
    /\ [](\A s \in Sessions :
            (view[s].screen = "app" /\ session[s]["username"] = <<"admin">>)
               => /\ {"Admin Panel", "Calendar Events"}
                        \subseteq Range(view[s].available_pages)
                  /\ "Calendar" \in Range(view[s].available_pages)
                        <=> calendar \in Range(session[s]["permissions"])
                  /\ "Image Generator" \in Range(view[s].available_pages)
                        <=> image_generator \in Range(session[s]["permissions"])
                  /\ view[s].page # None
                  /\ view[s].page[1] \in Range(view[s].available_pages))
    /\ [][\A choice \in PageNames :
            (/\ Main(Browser, choice)
             /\ session'[Browser]["username"] = <<"admin">>
             /\ choice \in Range(view'[Browser].available_pages))
               => view'[Browser].page = <<choice>>]_vars

C9_Witness ==
    /\ view[Browser].screen = "app"
    /\ session[Browser]["username"] = <<"admin">>
    /\ session[Browser]["permissions"] = <<>>
    /\ view[Browser].available_pages = <<"Admin Panel", "Calendar Events">>
    /\ view[Browser].page = <<"Calendar Events">>

\* C10: from logout() to the next successful authenticate the session state
\* holds no key but the defaults of the next run, is_admin() is false,
\* check_permission is false for every capability and only the login page shows.
C10_LoggedOutSeesLogin ==
    \A s \in Sessions :
       loggedOut[s]
          => /\ session[s] \in {NoSession, InitSessionState(NoSession)}
             /\ ~is_admin(session[s])
             /\ \A cap \in Capabilities : ~check_permission(session[s], cap)
             /\ view[s].screen \in {"rerun", "login"}

C10_Witness ==
    /\ loggedOut[Browser]
    /\ view[Browser] = [screen |-> "login", msg |-> "invalid"]
    /\ thr[Browser] = Idle("authenticate", RetNone)

\* C11: authenticate with an unknown username and authenticate with a known
\* username and a wrong password both return None, and neither changes any row
\* of users (no last_login is written).
C11_FailedAuthenticateAbsent ==
    [][\A u \in Usernames, q \in Passwords :
          (/\ thr[Caller].pc = "idle"
           /\ ~\E r \in users : r.username = u /\ r.password_hash = _hash_password(q)
           /\ AuthenticateSelect(Caller, u, q, "api"))
             => /\ thr'[Caller] = Idle("authenticate", RetNone)
                /\ users' = users]_vars

\* a failed authenticate has returned while one user never logged in and the
\* other still carries the last_login of an earlier, successful login
C11_Witness ==
    /\ thr[Caller] = Idle("authenticate", RetNone)
    /\ \E r \in users : r.username = "alice" /\ r.last_login = <<0>>
    /\ \E r \in users : r.username = "admin" /\ r.last_login = NULL
    /\ now = 1

\* C12: the UPDATE of a successful authenticate(u, p) writes the current time
\* to last_login of u's row and changes no other column and no other row; a
\* last_login that is not NULL was written by a successful authenticate of
\* that username.
C12_LoginStampsLastLoginOnly ==
    [][/\ AuthenticateUpdate(Caller)
          => /\ \A r \in users :
                   IF r.username = thr[Caller].username
                   THEN [r EXCEPT !.last_login = <<now>>] \in users'
                   ELSE r \in users'
             /\ Cardinality(users') = Cardinality(users)
             /\ thr'[Caller].ret.kind = "user"
       /\ \A r2 \in users' :
             r2.last_login # NULL
               => \/ \E r \in users : /\ r.username = r2.username
                                       /\ r.last_login = r2.last_login
                  \/ /\ AuthenticateUpdate(Caller)
                     /\ thr[Caller].username = r2.username]_vars

C12_Witness ==
    /\ thr[Caller].pc = "idle"
    /\ thr[Caller].op = "authenticate"
    /\ thr[Caller].ret.kind = "user"
    /\ thr[Caller].ret.username = "alice"
    /\ \E r \in users : /\ r.username = "alice"
                         /\ r.created_at = 0
                         /\ r.last_login = <<1>>
    /\ \E r \in users : r.username = "admin" /\ r.last_login = NULL
    /\ now = 1

\* C13: init_database on a table without an admin row inserts, for a non-empty
\* ADMIN_PASSWORD, exactly one row: admin, the hash of that password, the
\* permission set {calendar, image_generator}; for an unset or empty
\* ADMIN_PASSWORD it inserts nothing.
C13_InitCreatesAdminFromSecret ==
    [][\A secret \in Secrets :
          (/\ ~\E r \in users : r.username = "admin"
           /\ Start(secret))
             => IF secret # ""
                THEN /\ users \subseteq users'
                     /\ Cardinality(users' \ users) = 1
                     /\ \A r \in users' \ users :
                           /\ r.username = "admin"
                           /\ r.password_hash = _hash_password(secret)
                           /\ Range(ParsePermissions(r.permissions)) = Capabilities
                           /\ Len(ParsePermissions(r.permissions)) = 2
                ELSE users' = users]_vars

\* a start with ADMIN_PASSWORD = pw2 has inserted admin, beside alice's row
C13_Witness ==
    /\ thr[Caller] = Idle("none", RetNone)
    /\ bootstrapped
    /\ \E r \in users : r.username = "alice"
    /\ \E r \in users : /\ r.username = "admin"
                         /\ r.password_hash = _hash_password("pw2")
                         /\ r.permissions = Join(<<calendar, image_generator>>)
                         /\ r.last_login = NULL

\* C14: init_database on a table that holds an admin row changes no row,
\* whatever ADMIN_PASSWORD is and whatever admin's permissions were edited to.
C14_InitIdempotent ==
    [][\A secret \in Secrets :
          (/\ \E r \in users : r.username = "admin"
           /\ Start(secret))
             => users' = users]_vars

\* a start has run over an admin row whose permissions were edited to the
\* empty list after admin had logged in
C14_Witness ==
    /\ thr[Caller] = Idle("none", RetNone)
    /\ bootstrapped
    /\ \E r \in users : /\ r.username = "admin"
                         /\ r.password_hash = _hash_password("pw2")
                         /\ r.permissions = <<>>
                         /\ r.last_login # NULL

(* ------------------------------------------------------------------------- *)
(* utils/azure_ai.py: AzureOpenAICalendarExtractor.                           *)
(*                                                                           *)
(* The text of a reply is a sequence of lexemes: the fence ```, a bare word  *)
(* (json, null, Sorry), white space, a punctuation mark of JSON, a string    *)
(* literal with its characters, a number literal.  A JSON value and a Python *)
(* value are records tagged by t.                                            *)
(* ------------------------------------------------------------------------- *)

TFence == [t |-> "fence"]
TWord(w) == [t |-> "word", w |-> w]
TWs == [t |-> "ws"]
TP(c) == [t |-> "punct", c |-> c]
TStr(s) == [t |-> "strlit", s |-> s]
TNum(n) == [t |-> "numlit", n |-> n]

JStr(s) == [t |-> "str", s |-> s]
JNum(n) == [t |-> "num", n |-> n]
JNull == [t |-> "null"]
JBool(b) == [t |-> "bool", b |-> b]
JArr(items) == [t |-> "arr", items |-> items]
JObj(members) == [t |-> "obj", members |-> members]

IsP(tok, c) == tok.t = "punct" /\ tok.c = c

\* str.strip(): white space at both ends goes
RECURSIVE LStrip(_)
LStrip(text) ==
    IF text # <<>> /\ Head(text).t = "ws" THEN LStrip(Tail(text)) ELSE text

RECURSIVE RStrip(_)
RStrip(text) ==
    IF text # <<>> /\ text[Len(text)].t = "ws"
    THEN RStrip(SubSeq(text, 1, Len(text) - 1))
    ELSE text

Strip(text) == RStrip(LStrip(text))

\* response_text.startswith("```json"), .startswith("```")
StartsWithFenceJson(text) ==
    /\ Len(text) >= 2
    /\ text[1].t = "fence"
    /\ text[2].t = "word"
    /\ text[2].w = "json"

StartsWithFence(text) == text # <<>> /\ text[1].t = "fence"

\* .replace("```json", ""): every fence that json follows goes, with the word
RECURSIVE ReplaceFenceJson(_)
ReplaceFenceJson(text) ==
    IF text = <<>> THEN <<>>
    ELSE IF StartsWithFenceJson(text) THEN ReplaceFenceJson(SubSeq(text, 3, Len(text)))
    ELSE <<Head(text)>> \o ReplaceFenceJson(Tail(text))

\* .replace("```", ""): every fence goes
ReplaceFence(text) == SelectSeq(text, LAMBDA tok : tok.t # "fence")

StripFenceNever(response_text) == response_text

\* azure_ai.py:198-201
StripFence(response_text) ==
    IF StartsWithFenceJson(response_text)
    THEN Strip(ReplaceFence(ReplaceFenceJson(response_text)))
    ELSE IF StartsWithFence(response_text)
    THEN Strip(ReplaceFence(response_text))
    ELSE response_text

\* json.loads(response_text): white space between lexemes is skipped, then one
\* value must span the whole text.  ParseValue reads one value off the front:
\* [ok, val, rest]; ParseElements and ParseMembers read the rest of an array
\* and of an object after the opening mark.
ParseFail == [ok |-> FALSE]

RECURSIVE ParseValue(_), ParseElements(_, _), ParseMembers(_, _)
ParseValue(toks) ==
    IF toks = <<>> THEN ParseFail
    ELSE LET h == Head(toks)
             rest == Tail(toks)
         IN  IF h.t = "strlit" THEN [ok |-> TRUE, val |-> JStr(h.s), rest |-> rest]
             ELSE IF h.t = "numlit" THEN [ok |-> TRUE, val |-> JNum(h.n), rest |-> rest]
             ELSE IF h.t = "word"
             THEN IF h.w = "null" THEN [ok |-> TRUE, val |-> JNull, rest |-> rest]
                  ELSE IF h.w = "true"
                  THEN [ok |-> TRUE, val |-> JBool(TRUE), rest |-> rest]
                  ELSE IF h.w = "false"
                  THEN [ok |-> TRUE, val |-> JBool(FALSE), rest |-> rest]
                  ELSE ParseFail
             ELSE IF IsP(h, "[")
             THEN IF rest # <<>> /\ IsP(Head(rest), "]")
                  THEN [ok |-> TRUE, val |-> JArr(<<>>), rest |-> Tail(rest)]
                  ELSE ParseElements(rest, <<>>)
             ELSE IF IsP(h, "{")
             THEN IF rest # <<>> /\ IsP(Head(rest), "}")
                  THEN [ok |-> TRUE, val |-> JObj(<<>>), rest |-> Tail(rest)]
                  ELSE ParseMembers(rest, <<>>)
             ELSE ParseFail

ParseElements(toks, acc) ==
    LET r == ParseValue(toks)
    IN  IF ~r.ok THEN ParseFail
        ELSE IF r.rest = <<>> THEN ParseFail
        ELSE IF IsP(Head(r.rest), ",")
        THEN ParseElements(Tail(r.rest), Append(acc, r.val))
        ELSE IF IsP(Head(r.rest), "]")
        THEN [ok |-> TRUE, val |-> JArr(Append(acc, r.val)), rest |-> Tail(r.rest)]
        ELSE ParseFail

ParseMembers(toks, acc) ==
    IF Len(toks) < 3 THEN ParseFail
    ELSE IF toks[1].t # "strlit" \/ ~IsP(toks[2], ":") THEN ParseFail
    ELSE LET r == ParseValue(SubSeq(toks, 3, Len(toks)))
             member == <<toks[1].s, r.val>>
         IN  IF ~r.ok THEN ParseFail
             ELSE IF r.rest = <<>> THEN ParseFail
             ELSE IF IsP(Head(r.rest), ",")
             THEN ParseMembers(Tail(r.rest), Append(acc, member))
             ELSE IF IsP(Head(r.rest), "}")
             THEN [ok |-> TRUE, val |-> JObj(Append(acc, member)),
                   rest |-> Tail(r.rest)]
             ELSE ParseFail

JsonLoads(text) ==
    LET r == ParseValue(SelectSeq(text, LAMBDA tok : tok.t # "ws"))
    IN  IF r.ok /\ r.rest = <<>> THEN [ok |-> TRUE, val |-> r.val] ELSE ParseFail

\* dict.get(key, default): the last member of that name decides
DictGet(members, key, default) ==
    LET at == {i \in 1..Len(members) : members[i][1] = key}
    IN  IF at = {} THEN default
        ELSE members[CHOOSE i \in at : \A j \in at : j <= i][2]

\* the truth value Python gives a JSON value
Truthy(v) ==
    IF v.t = "str" THEN v.s # <<>>
    ELSE IF v.t = "num" THEN v.n # 0
    ELSE IF v.t = "bool" THEN v.b
    ELSE IF v.t = "arr" THEN v.items # <<>>
    ELSE IF v.t = "obj" THEN v.members # <<>>
    ELSE FALSE

DigitChars == <<"0", "1", "2", "3", "4", "5", "6", "7", "8", "9">>

RECURSIVE Decimal(_)
Decimal(n) ==
    IF n < 10 THEN <<DigitChars[n + 1]>>
    ELSE Decimal(n \div 10) \o <<DigitChars[(n % 10) + 1]>>

\* str(v) of a text, a natural number, None, a truth value
Str(v) ==
    IF v.t = "str" THEN v.s
    ELSE IF v.t = "num" THEN Decimal(v.n)
    ELSE IF v.t = "null" THEN <<"N", "o", "n", "e">>
    ELSE IF v.b THEN <<"T", "r", "u", "e">>
    ELSE <<"F", "a", "l", "s", "e">>

\* s[:n]
Take(s, n) == SubSeq(s, 1, IF Len(s) < n THEN Len(s) ELSE n)

TitleCap == 100
DescriptionCap == 500

k_title == <<"t", "i", "t", "l", "e">>
k_date == <<"d", "a", "t", "e">>
k_time == <<"t", "i", "m", "e">>
k_location == <<"l", "o", "c", "a", "t", "i", "o", "n">>
k_description == <<"d", "e", "s", "c", "r", "i", "p", "t", "i", "o", "n">>

\* cleaned_event (azure_ai.py:214-220)
cleaned_event(event) ==
    [title |-> Take(Str(DictGet(event.members, k_title, JStr(<<>>))), TitleCap),
     date |-> Str(DictGet(event.members, k_date, JStr(<<>>))),
     time |-> Str(DictGet(event.members, k_time, JStr(<<>>))),
     location |-> Str(DictGet(event.members, k_location, JStr(<<>>))),
     description |->
        Take(Str(DictGet(event.members, k_description, JStr(<<>>))), DescriptionCap)]

cleaned_eventsKeepAll(items) ==
    LET kept == SelectSeq(items, LAMBDA event : event.t = "obj")
    IN  [i \in 1..Len(kept) |-> cleaned_event(kept[i])]

\* for event in events (= items): if isinstance(event, dict) and event.get("title"):
\*     cleaned_events.append(cleaned_event)
cleaned_events(items) ==
    LET kept == SelectSeq(items,
                    LAMBDA event : /\ event.t = "obj"
                                   /\ Truthy(DictGet(event.members, k_title, JNull)))
    IN  [i \in 1..Len(kept) |-> cleaned_event(kept[i])]

-----------------------------------------------------------------------------
(* The client object and extract_calendar_events_from_image *)

\* not self.endpoint, not self.api_key: unset (None) or set to the empty text
Unset(setting) == setting = None \/ setting = <<"">>

_initialize_clientAnyEndpoint(endpoint, api_key, sdk) ==
    IF sdk = "raises" THEN None
    ELSE IF Unset(api_key) THEN <<"managed_identity">>
    ELSE <<"api_key">>

\* self.client after __init__: None when the endpoint is unset or when
\* DefaultAzureCredential, get_token or AzureOpenAI(...) raises (sdk = "raises")
_initialize_client(endpoint, api_key, sdk) ==
    IF Unset(endpoint) THEN None
    ELSE IF sdk = "raises" THEN None
    ELSE IF Unset(api_key) THEN <<"managed_identity">>
    ELSE <<"api_key">>

is_configured(ex) == ex.client # None /\ ex.endpoint # None

\* _encode_image_to_base64: image bytes pass through; a PIL image is saved as
\* JPEG, which Pillow refuses for a palette image (mode P) with OSError
_encode_image_to_base64(image) ==
    IF image = "P" THEN Raise("OSError") ELSE [kind |-> "base64"]

\* the body of the inner try (azure_ai.py:196-224)
ParseResponse(response_text) ==
    LET loaded == JsonLoads(StripFence(response_text))
    IN  IF ~loaded.ok THEN Raise("JSONDecodeError")
        ELSE IF loaded.val.t # "arr" THEN RetList(<<>>)
        ELSE RetList(cleaned_events(loaded.val.items))

\* except json.JSONDecodeError: return []
InnerTry(response_text) ==
    LET r == ParseResponse(response_text)
    IN  IF r.kind = "raise" /\ r.exc = "JSONDecodeError" THEN RetList(<<>>) ELSE r

ExtractBodyForgets(ex, image, reply) ==
    IF _encode_image_to_base64(image).kind = "raise"
    THEN [ret |-> _encode_image_to_base64(image), requested |-> FALSE,
          last_response |-> ex.last_response]
    ELSE IF reply.kind = "raise"
    THEN [ret |-> Raise(reply.exc), requested |-> TRUE, last_response |-> NULL]
    ELSE IF reply.content = None
    THEN [ret |-> Raise("AttributeError"), requested |-> TRUE, last_response |-> NULL]
    ELSE LET response_text == Strip(reply.content[1])
         IN  [ret |-> InnerTry(response_text), requested |-> TRUE,
              last_response |-> <<response_text>>]

\* the body of the outer try (azure_ai.py:119-229): ret, whether the request
\* went out, and self._last_response afterwards
ExtractBody(ex, image, reply) ==
    IF _encode_image_to_base64(image).kind = "raise"
    THEN [ret |-> _encode_image_to_base64(image), requested |-> FALSE,
          last_response |-> ex.last_response]
    ELSE IF reply.kind = "raise"
    THEN [ret |-> Raise(reply.exc), requested |-> TRUE,
          last_response |-> ex.last_response]
    ELSE IF reply.content = None
    THEN [ret |-> Raise("AttributeError"), requested |-> TRUE,
          last_response |-> ex.last_response]
    ELSE LET response_text == Strip(reply.content[1])
         IN  [ret |-> InnerTry(response_text), requested |-> TRUE,
              last_response |-> <<response_text>>]

ExceptionClasses ==
    {"OSError", "APIConnectionError", "AuthenticationError", "AttributeError",
     "JSONDecodeError"}

ExceptExceptionAzureOnly(exc) == exc \in {"HttpResponseError", "ClientAuthenticationError"}

\* except Exception as e: every class above derives from Exception
ExceptException(exc) == exc \in ExceptionClasses

extract_calendar_events_from_image(ex, image, reply) ==
    IF ~is_configured(ex)
    THEN [ret |-> RetList(<<>>), requested |-> FALSE, last_response |-> ex.last_response]
    ELSE LET r == ExtractBody(ex, image, reply)
         IN  IF r.ret.kind = "raise" /\ ExceptException(r.ret.exc)
             THEN [r EXCEPT !.ret = RetList(<<>>)]
             ELSE r

\* get_last_response: getattr(self, '_last_response', '')
get_last_response(ex) ==
    IF ex.last_response = NULL THEN <<>> ELSE ex.last_response[1]

\* get_azure_openai_extractor(), first call in the process: __init__ reads the
\* environment and builds the client; st.cache_resource keeps the object
BuildExtractor(endpoint, api_key, sdk) ==
    /\ started
    /\ ~extractor.built
    /\ extractor' = [built |-> TRUE, endpoint |-> endpoint,
                     client |-> _initialize_client(endpoint, api_key, sdk),
                     last_response |-> NULL]
    /\ UNCHANGED <<xret, requested, xcall>>
    /\ UNCHANGED <<userVars, evVars, dbVars>>

NoReply == [kind |-> "none"]

\* extractor.extract_calendar_events_from_image(image); reply is what the
\* chat-completions request of this call gets, if the call sends one
Extract(image, reply) ==
    /\ extractor.built
    /\ LET r == extract_calendar_events_from_image(extractor, image, reply)
       IN  /\ extractor' = [extractor EXCEPT !.last_response = r.last_response]
           /\ xret' = r.ret
           /\ requested' = r.requested
           /\ xcall' = [image |-> image,
                        reply |-> IF r.requested THEN reply ELSE NoReply]
    /\ UNCHANGED <<userVars, evVars, dbVars>>

(* ------------------------------------------------------------------------- *)
(* The extraction client called with images, against an endpoint whose       *)
(* replies are JSON values written out as text, bare or fenced, and texts     *)
(* that are no JSON.                                                          *)
(* ------------------------------------------------------------------------- *)

s_team == <<"T", "e", "a", "m">>
s_lunch == <<"L", "u", "n", "c", "h">>
s_date == <<"2", "0", "2", "5", "-", "0", "6", "-", "0", "8">>
s_time == <<"1", "4", ":", "0", "0">>
s_room == <<"R", "o", "o", "m">>
s_weekly == <<"W", "e", "e", "k", "l", "y">>
k_notes == <<"n", "o", "t", "e", "s">>
LongText(n) == [i \in 1..n |-> "x"]

ev_full ==
    JObj(<< <<k_title, JStr(s_team)>>, <<k_date, JStr(s_date)>>,
            <<k_time, JStr(s_time)>>, <<k_location, JStr(s_room)>>,
            <<k_description, JStr(s_weekly)>> >>)
ev_title_only == JObj(<< <<k_title, JStr(s_lunch)>> >>)
ev_no_title == JObj(<< <<k_date, JStr(s_date)>>, <<k_location, JStr(s_room)>> >>)
ev_empty_title == JObj(<< <<k_title, JStr(<<>>)>>, <<k_date, JStr(s_date)>> >>)
ev_null_title == JObj(<< <<k_title, JNull>>, <<k_time, JStr(s_time)>> >>)
ev_not_object == JStr(s_team)
ev_long ==
    JObj(<< <<k_title, JStr(LongText(TitleCap + 1))>>,
            <<k_description, JStr(LongText(DescriptionCap + 1))>>,
            <<k_notes, JStr(s_weekly)>> >>)
ev_coerced ==
    JObj(<< <<k_title, JNum(7)>>, <<k_date, JNull>>, <<k_time, JBool(TRUE)>> >>)

BaseElements == <<ev_full, ev_title_only, ev_no_title, ev_empty_title, ev_not_object>>

\* the arrays a reply holds: every sequence of at most two base elements, and
\* some of one and of three elements
ReplyArrays ==
    {<<>>}
      \cup {<<BaseElements[i]>> : i \in DOMAIN BaseElements}
      \cup {<<BaseElements[i], BaseElements[j]>> :
                i \in DOMAIN BaseElements, j \in DOMAIN BaseElements}
      \cup {<<ev_long>>, <<ev_coerced>>, <<ev_null_title>>,
            <<ev_full, ev_no_title, ev_title_only>>,
            <<ev_title_only, ev_not_object, ev_long>>}

ReplyValues ==
    {JArr(a) : a \in ReplyArrays} \cup {ev_full, JStr(s_team), JNull, JNum(3)}

\* json.dumps(v), as the endpoint writes a value
RECURSIVE Dumps(_), DumpItems(_), DumpMembers(_)
Dumps(v) ==
    IF v.t = "str" THEN <<TStr(v.s)>>
    ELSE IF v.t = "num" THEN <<TNum(v.n)>>
    ELSE IF v.t = "null" THEN <<TWord("null")>>
    ELSE IF v.t = "bool" THEN <<TWord(IF v.b THEN "true" ELSE "false")>>
    ELSE IF v.t = "arr" THEN <<TP("[")>> \o DumpItems(v.items) \o <<TP("]")>>
    ELSE <<TP("{")>> \o DumpMembers(v.members) \o <<TP("}")>>

DumpItems(items) ==
    IF items = <<>> THEN <<>>
    ELSE IF Len(items) = 1 THEN Dumps(items[1])
    ELSE Dumps(items[1]) \o <<TP(","), TWs>> \o DumpItems(Tail(items))

DumpMembers(members) ==
    IF members = <<>> THEN <<>>
    ELSE LET m == <<TStr(members[1][1]), TP(":"), TWs>> \o Dumps(members[1][2])
         IN  IF Len(members) = 1 THEN m
             ELSE m \o <<TP(","), TWs>> \o DumpMembers(Tail(members))

\* how the reply wraps the value: bare, padded with white space, inside a
\* ```json fence, inside a plain ``` fence, or fenced after a line of prose
Wraps == {"bare", "padded", "fence_json", "fence", "prose_fence"}

Wrap(w, body) ==
    IF w = "bare" THEN body
    ELSE IF w = "padded" THEN <<TWs>> \o body \o <<TWs>>
    ELSE IF w = "fence_json"
    THEN <<TFence, TWord("json"), TWs>> \o body \o <<TWs, TFence>>
    ELSE IF w = "fence" THEN <<TFence, TWs>> \o body \o <<TWs, TFence, TWs>>
    ELSE <<TWord("Here"), TP(":"), TWs, TFence, TWord("json"), TWs>>
            \o body \o <<TWs, TFence>>

\* texts that are no JSON: the refusal "Sorry, I cannot help with that.", an
\* array cut off before its end, an array with a comma before its end
NoJsonBodies ==
    {<<TWord("Sorry"), TP(","), TWs, TWord("I"), TWs, TWord("cannot"), TWs,
       TWord("help"), TWs, TWord("with"), TWs, TWord("that"), TP(".")>>,
     SubSeq(Dumps(JArr(<<ev_full>>)), 1, Len(Dumps(JArr(<<ev_full>>))) - 1),
     <<TP("[")>> \o Dumps(ev_title_only) \o <<TP(","), TP("]")>>,
     <<>>}

\* the values that replies also pad and fence
WrappedValues ==
    {JArr(<<>>), JArr(<<ev_full>>), JArr(<<ev_title_only>>), JArr(<<ev_long>>),
     JArr(<<ev_coerced>>), JArr(<<ev_no_title>>),
     JArr(<<ev_full, ev_no_title, ev_title_only>>), ev_full, JNull}

\* a reply with a message: its content, and what the content was written from
Message(w, value, body) ==
    [kind |-> "message", content |-> <<Wrap(w, body)>>, wrap |-> w, value |-> value]

Replies ==
    {Raise("APIConnectionError"), Raise("AuthenticationError"),
     [kind |-> "message", content |-> None, wrap |-> "bare", value |-> <<>>]}
      \cup {Message("bare", <<v>>, Dumps(v)) : v \in ReplyValues}
      \cup {Message(w, <<v>>, Dumps(v)) : w \in Wraps, v \in WrappedValues}
      \cup {Message(w, <<>>, b) : w \in {"bare", "fence_json"}, b \in NoJsonBodies}

Images == {"bytes", "P"}
Endpoints == {None, <<"">>, <<"https://res.openai.azure.com">>}
ApiKeys == {None, <<"key">>}

NextExtract ==
    \/ \E secret \in AppSecrets : Start(secret)
    \/ \E endpoint \in Endpoints, api_key \in ApiKeys, sdk \in {"ok", "raises"} :
          BuildExtractor(endpoint, api_key, sdk)
    \/ \E image \in Images, reply \in Replies : Extract(image, reply)

SpecExtract == Init /\ [][NextExtract]_vars

-----------------------------------------------------------------------------
(* Claims on the extraction client *)

\* the last call got a message with text from the endpoint
GotText ==
    /\ xcall # RetNone
    /\ xcall.reply.kind = "message"
    /\ xcall.reply.content # None

\* the object names a title that is neither null nor the empty text
HasNonEmptyTitle(element) ==
    /\ element.t = "obj"
    /\ \E i \in 1..Len(element.members) : element.members[i][1] = k_title
    /\ \A i \in 1..Len(element.members) :
          element.members[i][1] = k_title
            => element.members[i][2].t \notin {"null"}
               /\ (element.members[i][2].t = "str" => element.members[i][2].s # <<>>)

Supplies(element, key) ==
    \E i \in 1..Len(element.members) : element.members[i][1] = key

\* the title the object names, as text
TitleText(element) ==
    Str(element.members[CHOOSE i \in 1..Len(element.members) :
                           element.members[i][1] = k_title][2])

Fences == {"fence_json", "fence"}

\* C15: a client built with the endpoint unset (or empty) is not configured,
\* and every extract call on it returns [] and sends no request.
C15_UnconfiguredExtractsNothing ==
    (extractor.built /\ extractor.endpoint \in {None, <<"">>})
       => /\ ~is_configured(extractor)
          /\ xcall # RetNone => (xret = RetList(<<>>) /\ ~requested)

C15_Witness ==
    /\ extractor.built
    /\ extractor.endpoint = None
    /\ xcall # RetNone
    /\ xcall.image = "bytes"
    /\ xret = RetList(<<>>)
    /\ ~requested

C18_ExtractNeverRaises ==
    /\ xret.kind \in {"none", "list"}
    /\ xcall # RetNone
          => /\ xcall.image = "P" => xret = RetList(<<>>)
             /\ xcall.reply.kind = "raise" => xret = RetList(<<>>)
             /\ (xcall.reply.kind = "message" /\ xcall.reply.content = None)
                   => xret = RetList(<<>>)
             /\ (GotText /\ xcall.reply.value \in {<<>>, <<JArr(<<>>)>>})
                   => xret = RetList(<<>>)

C18_Witness ==
    /\ xcall # RetNone
    /\ xcall.reply = Raise("AuthenticationError")
    /\ requested
    /\ xret = RetList(<<>>)
    /\ extractor.last_response # NULL

(* ------------------------------------------------------------------------- *)
(* utils/calendar_db.py: CalendarEventDB.  The table is declared with         *)
(*     id INTEGER PRIMARY KEY, title VARCHAR NOT NULL, ...,                   *)
(*     created_at, updated_at TIMESTAMP DEFAULT CURRENT_TIMESTAMP             *)
(* (calendar_db.py:29-40).  DuckDB gives a column the value of its DEFAULT    *)
(* clause when an INSERT does not name it, NULL when it has none, and a       *)
(* PRIMARY KEY column is NOT NULL and UNIQUE.                                 *)
(* ------------------------------------------------------------------------- *)

\* the value an INSERT gives id when it does not name it: the column is
\* declared without DEFAULT and without a sequence (calendar_db.py:31)
EventIdDefault == NULL

NewEvent(id, event, extracted_text, created_by, t) ==
    [id |-> id, title |-> event.title, event_date |-> event.date,
     event_time |-> event.time, location |-> event.location,
     description |-> event.description, extracted_text |-> extracted_text,
     created_by |-> created_by, created_at |-> t, updated_at |-> t]

\* INSERT INTO calendar_events (...) with id = <<n>>, or NULL when the
\* statement leaves id to its default; the statement raises (ok = FALSE) on
\* a NULL key and on a key the table holds already
InsertEvent(rows, id, event, extracted_text, created_by, t) ==
    IF id = NULL THEN [ok |-> FALSE, rows |-> rows]
    ELSE IF \E r \in rows : r.id = id[1] THEN [ok |-> FALSE, rows |-> rows]
    ELSE [ok |-> TRUE,
          rows |-> rows \cup {NewEvent(id[1], event, extracted_text, created_by, t)}]

DeleteEventRowUpTo(rows, event_id) == {r \in rows : r.id > event_id}

\* DELETE FROM calendar_events WHERE id = ?
DeleteEventRow(rows, event_id) == {r \in rows : r.id # event_id}

UpdateEventRowNoWhere(rows, event_id, event, t) ==
    {[r EXCEPT !.title = event.title, !.event_date = event.date,
               !.event_time = event.time, !.location = event.location,
               !.description = event.description, !.updated_at = t] : r \in rows}

\* UPDATE calendar_events SET title = ?, event_date = ?, event_time = ?,
\* location = ?, description = ?, updated_at = CURRENT_TIMESTAMP WHERE id = ?
UpdateEventRow(rows, event_id, event, t) ==
    {IF r.id = event_id
     THEN [r EXCEPT !.title = event.title, !.event_date = event.date,
                    !.event_time = event.time, !.location = event.location,
                    !.description = event.description, !.updated_at = t]
     ELSE r : r \in rows}

\* SELECT created_by, COUNT(*) ... GROUP BY created_by, as dict(user_counts)
UserCounts(rows) ==
    [u \in {r.created_by : r \in rows} |->
        Cardinality({r \in rows : r.created_by = u})]

\* INTERVAL 7 DAY, the clock counting days
RecentDays == 7

RetStats(rows, t) ==
    [kind |-> "stats",
     total_events |-> Cardinality(rows),
     recent_events |-> Cardinality({r \in rows : r.created_at >= t - RecentDays}),
     user_counts |-> UserCounts(rows)]

MaxCalls == 3

\* get_calendar_db() -> CalendarEventDB() -> init_calendar_table:
\* CREATE TABLE IF NOT EXISTS calendar_events
InitCalendarTable ==
    /\ started
    /\ ~events.exists
    /\ events' = [events EXCEPT !.exists = TRUE]
    /\ UNCHANGED <<evret, evlog>>
    /\ UNCHANGED <<userVars, extVars, dbVars>>

\* get_calendar_db() -> CalendarEventDB() -> init_calendar_table, and the
\* CREATE TABLE raises: the except handler logs the error, finally closes the
\* connection, and the table is not there
InitCalendarTableRaises ==
    /\ started
    /\ ~events.exists
    /\ conns' = Close(Connect(conns))
    /\ evret' = [op |-> "init_calendar_table", ret |-> RetNone]
    /\ UNCHANGED <<events, evlog>>
    /\ UNCHANGED <<userVars, extVars>>

\* add_calendar_event(event, username, extracted_text): the INSERT names every
\* column but id, created_at and updated_at; return True, or False from the
\* except handler when the statement raises
AddCalendarEvent(event, username, extracted_text) ==
    /\ events.exists
    /\ evlog.add_calls < MaxCalls
    /\ LET r == InsertEvent(events.rows, EventIdDefault, event, extracted_text,
                            username, now)
       IN  /\ events' = [events EXCEPT !.rows = r.rows]
           /\ evret' = [op |-> "add_calendar_event", ret |-> RetBool(r.ok)]
    /\ evlog' = [evlog EXCEPT !.add_calls = @ + 1]
    /\ UNCHANGED <<userVars, extVars, dbVars>>

\* delete_calendar_event(event_id): return True
DeleteCalendarEvent(event_id) ==
    /\ events.exists
    /\ events' = [events EXCEPT !.rows = DeleteEventRow(events.rows, event_id)]
    /\ evret' = [op |-> "delete_calendar_event", ret |-> RetBool(TRUE)]
    /\ evlog' = [evlog EXCEPT
                   !.deleted = @ + Cardinality(events.rows) - Cardinality(events'.rows)]
    /\ UNCHANGED <<userVars, extVars, dbVars>>

\* update_calendar_event(event_id, event): return True
UpdateCalendarEvent(event_id, event) ==
    /\ events.exists
    /\ events' = [events EXCEPT !.rows = UpdateEventRow(events.rows, event_id, event, now)]
    /\ evret' = [op |-> "update_calendar_event", ret |-> RetBool(TRUE)]
    /\ UNCHANGED evlog
    /\ UNCHANGED <<userVars, extVars, dbVars>>

\* get_calendar_stats()
GetCalendarStats ==
    /\ events.exists
    /\ evret' = [op |-> "get_calendar_stats", ret |-> RetStats(events.rows, now)]
    /\ UNCHANGED <<events, evlog>>
    /\ UNCHANGED <<userVars, extVars, dbVars>>

\* the SQL console of the admin panel (admin.py:205-235) runs the statement
\* the admin types on the same database file: here an INSERT INTO
\* calendar_events that names id
ConsoleInsertEvent(id, event, extracted_text, created_by) ==
    /\ events.exists
    /\ evlog.console < MaxCalls
    /\ LET r == InsertEvent(events.rows, <<id>>, event, extracted_text, created_by, now)
       IN  /\ r.ok
           /\ events' = [events EXCEPT !.rows = r.rows]
    /\ evret' = [op |-> "console", ret |-> RetNone]
    /\ evlog' = [evlog EXCEPT !.console = @ + 1]
    /\ UNCHANGED <<userVars, extVars, dbVars>>

(* ------------------------------------------------------------------------- *)
(* The calendar event store called by the pages, and the admin's SQL console  *)
(* on the same table.                                                         *)
(* ------------------------------------------------------------------------- *)

Draft(title, date, time, location, description) ==
    [title |-> title, date |-> date, time |-> time, location |-> location,
     description |-> description]

EventInputs ==
    {Draft(s_team, s_date, s_time, s_room, s_weekly),
     Draft(s_lunch, <<>>, <<>>, <<>>, <<>>),
     Draft(<<>>, s_date, <<>>, <<>>, <<>>)}
ConsoleEvents == {Draft(s_team, s_date, s_time, s_room, s_weekly)}
UpdateInputs == {Draft(s_lunch, <<>>, <<>>, <<>>, <<>>)}
Creators == {"alice", "bob"}
RawTexts == {<<>>, Dumps(JArr(<<ev_title_only>>))}
EventIds == {1, 2}
\* the raw text the console stores with a row: some for alice, none for bob
ConsoleText(u) == IF u = "alice" THEN Dumps(JArr(<<ev_title_only>>)) ELSE <<>>

NextEvents ==
    \/ \E secret \in AppSecrets : Start(secret)
    \/ InitCalendarTable
    \/ \E event \in EventInputs, u \in Creators, x \in RawTexts :
          AddCalendarEvent(event, u, x)
    \/ \E id \in EventIds : DeleteCalendarEvent(id)
    \/ GetCalendarStats
    \/ \E id \in EventIds, event \in UpdateInputs : UpdateCalendarEvent(id, event)
    \/ \E id \in EventIds, event \in ConsoleEvents, u \in Creators :
          ConsoleInsertEvent(id, event, ConsoleText(u), u)
    \/ Tick

SpecEvents == Init /\ [][NextEvents]_vars

-----------------------------------------------------------------------------
(* Claims on the calendar event store *)

\* C19: every add_calendar_event with a non-empty title on an initialized
\* table returns True and adds exactly one row, which holds the given fields,
\* creator and raw text and an id greater than the id of every row the table
\* held before.
C19_AddEventAddsOneRecord ==
    [][\A event \in EventInputs, u \in Creators, x \in RawTexts :
          (event.title # <<>> /\ AddCalendarEvent(event, u, x))
             => /\ evret'.ret = RetBool(TRUE)
                /\ events.rows \subseteq events'.rows
                /\ Cardinality(events'.rows \ events.rows) = 1
                /\ \A r \in events'.rows \ events.rows :
                      /\ r.title = event.title
                      /\ r.event_date = event.date
                      /\ r.event_time = event.time
                      /\ r.location = event.location
                      /\ r.description = event.description
                      /\ r.created_by = u
                      /\ r.extracted_text = x
                      /\ \A q \in events.rows : q.id < r.id]_vars

\* C20: when only add_calendar_event and delete_calendar_event have written
\* the table, get_calendar_stats returns total_events = the number of add
\* calls less the rows deleted, user_counts = per creator the number of that
\* creator's rows, and total_events is the sum of user_counts.
C20_StatsCountAddsLessDeletes ==
    (evret.op = "get_calendar_stats" /\ evlog.console = 0)
       => /\ evret.ret.total_events = evlog.add_calls - evlog.deleted
          /\ \A u \in Creators :
                Cardinality({r \in events.rows : r.created_by = u})
                   = IF u \in DOMAIN evret.ret.user_counts
                     THEN evret.ret.user_counts[u]
                     ELSE 0
          /\ evret.ret.total_events
                = Cardinality({r \in events.rows : r.created_by = "alice"})
                    + Cardinality({r \in events.rows : r.created_by = "bob"})

\* C21: update_calendar_event(id, event) gives the row of that id the five
\* fields of event and the current time as updated_at, keeps its id,
\* created_by, created_at and extracted_text, and keeps every other row; with
\* an id no row has, the table is unchanged.
C21_UpdateEventFrame ==
    [][\A id \in EventIds, event \in UpdateInputs :
          UpdateCalendarEvent(id, event)
             => /\ \A r \in events.rows :
                      IF r.id = id
                      THEN [id |-> r.id, title |-> event.title,
                            event_date |-> event.date, event_time |-> event.time,
                            location |-> event.location,
                            description |-> event.description,
                            extracted_text |-> r.extracted_text,
                            created_by |-> r.created_by, created_at |-> r.created_at,
                            updated_at |-> now] \in events'.rows
                      ELSE r \in events'.rows
                /\ Cardinality(events'.rows) = Cardinality(events.rows)
                /\ (\A r \in events.rows : r.id # id) => events' = events]_vars

\* row 1 was updated a day after both rows were inserted; row 2 is as inserted
C21_Witness ==
    /\ evret.op = "update_calendar_event"
    /\ \E r \in events.rows :
          /\ r.id = 1
          /\ r.title = s_lunch
          /\ r.extracted_text # <<>>
          /\ r.created_by = "alice"
          /\ r.created_at = 0
          /\ r.updated_at = 1
    /\ \E r \in events.rows :
          r.id = 2 /\ r.title = s_team /\ r.created_at = 0 /\ r.updated_at = 0

\* C22: delete_calendar_event(id) returns a boolean; it removes the row of that
\* id and no other, and with an id no row has it leaves the table unchanged.
C22_DeleteEventExactlyThatRow ==
    [][\A id \in EventIds :
          DeleteCalendarEvent(id)
             => /\ evret'.ret.kind = "bool"
                /\ \A r \in events.rows : r.id # id => r \in events'.rows
                /\ \A r \in events'.rows : r \in events.rows /\ r.id # id
                /\ (\A r \in events.rows : r.id # id) => events' = events]_vars

\* row 1 was deleted and row 2 is still there
C22_Witness ==
    /\ evret.op = "delete_calendar_event"
    /\ evlog.deleted = 1
    /\ evlog.console = 2
    /\ \E r \in events.rows : r.id = 2
    /\ Cardinality(events.rows) = 1

\* C29: update_permissions(u, perms) returns success only if a record for u
\* exists; in every case it changes nothing but the permissions field of u's
\* record, keeps every other record, and creates no record for an unknown u.
C29_UpdatePermissionsSuccessOnlyIfKnown ==
    [][\A u \in Usernames, perms \in PermLists :
          UpdatePermissions(Caller, u, perms)
             => /\ thr'[Caller].ret = RetBool(TRUE) => SelectByName(users, u)
                /\ \A r \in users :
                      IF r.username = u
                      THEN [r EXCEPT !.permissions = Join(perms)] \in users'
                      ELSE r \in users'
                /\ Cardinality(users') = Cardinality(users)
                /\ ~SelectByName(users, u) => users' = users]_vars

\* a step of Extract: the one step that finds the extractor built and leaves it
\* built; xcall' then holds the image of the call and the reply it received
ExtractStep == extractor.built /\ extractor'.built /\ xcall' # RetNone

\* the call of this step received a response text from the endpoint
ReceivedText == xcall'.reply.kind = "message" /\ xcall'.reply.content # None

C24_IdentityOnlyViaAuthenticate ==
    [][/\ \A s \in Sessions :
             /\ SessionGet(session'[s], "username") # SessionGet(session[s], "username")
             /\ SessionGet(session'[s], "username") # None
             => /\ thr[s].pc = "authenticate_update"
                /\ thr[s].caller = "login"
                /\ thr'[s].op = "authenticate"
                /\ thr'[s].ret.kind = "user"
                /\ SessionGet(session'[s], "username") = <<thr'[s].ret.username>>
                /\ SessionGet(session'[s], "permissions") = thr'[s].ret.permissions
       /\ \A u \in LoginNames, p \in LoginPasswords :
             /\ LoginSubmit(Browser, u, p)
             /\ \/ u = ""
                \/ p = ""
                \/ SelectByCredentials(users, u, _hash_password(p)) = <<>>
             => /\ session' = session
                /\ thr'[Browser].pc = "idle"
                /\ IF u = "" \/ p = ""
                   THEN thr' = thr
                   ELSE thr'[Browser] = Idle("authenticate", RetNone)]_vars

\* the browser is logged in as alice by the authenticate that just returned
C24_Witness ==
    /\ SessionGet(session[Browser], "username") = <<"alice">>
    /\ SessionGet(session[Browser], "permissions") = <<calendar>>
    /\ thr[Browser] = Idle("authenticate", RetUser("alice", <<calendar>>))

\* C27: a step makes is_admin() true for a session only as the return of an
\* authenticate that the session's login form called for admin, and the login
\* form starts the second statement of such a call only when the password it
\* submitted hashes to the password_hash of the admin record at that moment;
\* so no login as another user, failed login, add_user, update_permissions
\* or delete_user makes is_admin() true.
C27_AdminOnlyByAdminPassword ==
    [][/\ \A s \in Sessions :
             is_admin(session'[s]) /\ ~is_admin(session[s])
             => /\ thr[s].pc = "authenticate_update"
                /\ thr[s].caller = "login"
                /\ thr[s].result.username = "admin"
                /\ thr'[s].ret.kind = "user"
       /\ \A s \in Sessions :
             /\ thr'[s].pc = "authenticate_update"
             /\ thr[s].pc # "authenticate_update"
             /\ thr'[s].result.username = "admin"
             => \E p \in LoginPasswords : LoginSubmit(s, "admin", p)
       /\ \A s \in Sessions, p \in LoginPasswords :
             LoginSubmit(s, "admin", p) /\ thr'[s].pc = "authenticate_update"
             => /\ p # ""
                /\ \E r \in users :
                      /\ r.username = "admin"
                      /\ r.password_hash = _hash_password(p)]_vars

\* the browser is in the app as admin while alice has a record whose
\* permissions the operator has just set
C27_Witness ==
    /\ is_admin(session[Browser])
    /\ view[Browser].screen = "app"
    /\ thr[Operator].pc = "idle"
    /\ thr[Operator].op = "update_permissions"
    /\ \E r \in users : r.username = "alice" /\ r.permissions = Join(<<calendar>>)

\* C28: from the authenticate that established a session to its logout, no
\* step changes what check_permission and is_admin answer in it: not an
\* update_permissions or delete_user of another session on the user's record,
\* and not a script run of the session itself.
C28_PermissionsAreSnapshot ==
    [][/\ \A s \in Sessions :
             /\ SessionGet(session[s], "username") # None
             /\ SessionGet(session'[s], "username") # None
             => /\ is_admin(session'[s]) = is_admin(session[s])
                /\ \A cap \in Capabilities :
                      check_permission(session'[s], cap)
                         = check_permission(session[s], cap)
       /\ \A u \in Usernames :
             \/ DeleteUser(Operator, u)
             \/ \E perms \in PermLists : UpdatePermissions(Operator, u, perms)
             => session' = session]_vars

\* alice's session still has the calendar permission of her login and is shown
\* the app, after the operator took the permission from her record
C28_Witness ==
    /\ SessionGet(session[Browser], "username") = <<"alice">>
    /\ check_permission(session[Browser], calendar)
    /\ view[Browser].screen = "app"
    /\ view[Browser].page = <<"Calendar">>
    /\ \E r \in users : r.username = "alice" /\ r.permissions = <<>>

-----------------------------------------------------------------------------
(* The connections of both stores: calls of one caller, and initializations  *)
(* in which a statement raises                                               *)

NextConn ==
    \/ \E secret \in AppSecrets : Start(secret)
    \/ InitDatabaseRaises(Caller)
    \/ CollectConnection
    \/ \E perms \in RacePermLists : AddUserSelect(Caller, "alice", AppPassword, perms)
    \/ AddUserInsert(Caller)
    \/ \E u \in Usernames, p \in Passwords : AuthenticateSelect(Caller, u, p, "api")
    \/ AuthenticateUpdate(Caller)
    \/ \E u \in Usernames, perms \in RacePermLists : UpdatePermissions(Caller, u, perms)
    \/ \E u \in Usernames : DeleteUser(Caller, u)
    \/ GetAllUsers(Caller)
    \/ InitCalendarTable
    \/ InitCalendarTableRaises
    \/ \E event \in ConsoleEvents, u \in Creators : AddCalendarEvent(event, u, <<>>)
    \/ \E id \in EventIds : DeleteCalendarEvent(id)

SpecConn == Init /\ [][NextConn]_vars

\* C26: whenever no storage operation is in progress, no connection is open:
\* every operation, initialization included, has closed the connection it
\* opened, also when a statement of it raised.
C26_NoConnectionOpenWhenIdle ==
    (\A s \in Sessions : thr[s].pc = "idle") => conns.held + conns.lost = 0

\* C25: in every script run no page handler is called while the session has no
\* username; the calendar handler runs only with check_permission true for
\* calendar, the image-generator handler only with check_permission true for
\* image_generator, and the admin-panel and calendar-events handlers, and
\* what they show behind their own check, only with is_admin() true.
C25_DispatchIsGated ==
    \A s \in Sessions :
       view[s].screen = "app"
          => /\ SessionGet(session[s], "username") # None
             /\ view[s].page = <<"Calendar">> => check_permission(session[s], calendar)
             /\ view[s].ran = "calendar" => check_permission(session[s], calendar)
             /\ view[s].page = <<"Image Generator">>
                   => check_permission(session[s], image_generator)
             /\ view[s].ran = "image_generator"
                   => check_permission(session[s], image_generator)
             /\ view[s].page \in {<<"Admin Panel">>, <<"Calendar Events">>}
                   => is_admin(session[s])
             /\ view[s].ran \in {"admin_panel", "calendar_events"}
                   => is_admin(session[s])

\* alice has the calendar permission only: she is offered the calendar page and
\* the run called the calendar handler
C25_Witness ==
    /\ view[Browser].screen = "app"
    /\ SessionGet(session[Browser], "username") = <<"alice">>
    /\ view[Browser].available_pages = <<"Calendar">>
    /\ view[Browser].ran = "calendar"
    /\ ~is_admin(session[Browser])
    /\ ~check_permission(session[Browser], image_generator)

-----------------------------------------------------------------------------
(* The extraction-review flow of the Calendar Events page                    *)
(* (calendar_events.py:56-142): the block run on a press of "Extract         *)
(* Calendar Events" and the block run on a press of "Save Event i".  In      *)
(* calendar_events_page as written both stand behind the return of line 28,  *)
(* and the Save block stands inside the branch of the Extract button, which  *)
(* Streamlit reports pressed only in the run of its own press.               *)

\* validate_azure_openai_configuration()["configured"]
validate_azure_openai_configuration(endpoint) == ~Unset(endpoint)

\* hasattr(extractor, attr): the attributes __init__ sets, and _last_response
\* once a response was received (azure_ai.py:30-34, 193)
hasattr(ex, attr) ==
    \/ attr \in {"client", "endpoint", "api_key", "api_version", "deployment_name"}
    \/ attr = "_last_response" /\ ex.last_response # NULL

\* st.session_state.get(key, default)
SessionGetDefault(ss, key, default) == IF key \in DOMAIN ss THEN ss[key] ELSE default

\* the run of a press of "Extract Calendar Events" (lines 57-110, 130-142)
ReviewExtract(s, image, reply) ==
    /\ started
    /\ thr[s].pc = "idle"
    /\ view[s].screen = "app"
    /\ view[s].page = <<"Calendar Events">>
    /\ is_admin(session[s])
    /\ extractor.built
    /\ validate_azure_openai_configuration(extractor.endpoint)
    /\ LET r == extract_calendar_events_from_image(extractor, image, reply)
           ex == [extractor EXCEPT !.last_response = r.last_response]
           drafts == IF r.ret.kind = "list" THEN r.ret.val ELSE <<>>
       IN  /\ extractor' = ex
           /\ xret' = r.ret
           /\ requested' = r.requested
           /\ xcall' = [image |-> image,
                        reply |-> IF r.requested THEN reply ELSE NoReply]
           /\ IF r.ret.kind = "raise"
              THEN /\ view' = [view EXCEPT ![s] =
                                 [screen |-> "app",
                                  available_pages |-> view[s].available_pages,
                                  page |-> view[s].page, ran |-> "error"]]
                   /\ UNCHANGED <<session, events>>
              ELSE IF drafts # <<>>
              THEN /\ session' =
                         IF hasattr(ex, "_last_extracted_text")
                         THEN [session EXCEPT ![s] =
                                 SetKey(@, "last_extracted_text", get_last_response(ex))]
                         ELSE session
                   /\ events' = [events EXCEPT !.exists = TRUE]
                   /\ view' = [view EXCEPT ![s] =
                                 [screen |-> "app",
                                  available_pages |-> view[s].available_pages,
                                  page |-> view[s].page, ran |-> "review",
                                  drafts |-> drafts,
                                  response |-> get_last_response(ex),
                                  msg |-> "none"]]
              ELSE /\ view' = [view EXCEPT ![s] =
                                 [screen |-> "app",
                                  available_pages |-> view[s].available_pages,
                                  page |-> view[s].page, ran |-> "no_events",
                                  raw_response |-> get_last_response(ex)]]
                   /\ UNCHANGED <<session, events>>
    /\ UNCHANGED <<evret, evlog, dbVars>>
    /\ UNCHANGED <<users, started, now, thr, added, stored, loggedOut, bootstrapped>>

\* the run of a press of "Save Event i" (lines 112-126); the text inputs hold
\* the fields of draft i
ReviewSave(s, i) ==
    /\ started
    /\ thr[s].pc = "idle"
    /\ view[s].screen = "app"
    /\ view[s].ran = "review"
    /\ i \in DOMAIN view[s].drafts
    /\ evlog.add_calls < MaxCalls
    /\ LET event_data == view[s].drafts[i]
           extracted_text == SessionGetDefault(session[s], "last_extracted_text", <<>>)
           username == SessionGetDefault(session[s], "username", <<"unknown">>)
           r == InsertEvent(events.rows, EventIdDefault, event_data, extracted_text,
                            IF username = None THEN NULL ELSE username[1], now)
       IN  /\ events' = [events EXCEPT !.rows = r.rows]
           /\ evret' = [op |-> "add_calendar_event", ret |-> RetBool(r.ok)]
           /\ view' = [view EXCEPT ![s] =
                         [@ EXCEPT !.msg = IF r.ok THEN "saved" ELSE "failed"]]
    /\ evlog' = [evlog EXCEPT !.add_calls = @ + 1]
    /\ UNCHANGED <<extVars, dbVars>>
    /\ UNCHANGED <<users, started, now, thr, session, added, stored, loggedOut,
                   bootstrapped>>

(* ------------------------------------------------------------------------- *)
(* The admin logs in, opens the Calendar Events page, extracts and saves.     *)
(* ------------------------------------------------------------------------- *)

ReviewReplies ==
    {Raise("APIConnectionError"),
     Message("fence_json", <<JArr(<<ev_full>>)>>, Dumps(JArr(<<ev_full>>))),
     Message("bare", <<JArr(<<ev_title_only, ev_full>>)>>,
             Dumps(JArr(<<ev_title_only, ev_full>>))),
     Message("bare", <<JArr(<<>>)>>, Dumps(JArr(<<>>)))}
DraftIndexes == {1, 2}

NextReview ==
    \/ \E secret \in AppSecrets : Start(secret)
    \/ \E choice \in {"Admin Panel", "Calendar Events"} : Main(Browser, choice)
    \/ \E p \in AppSecrets : LoginSubmit(Browser, "admin", p)
    \/ AuthenticateUpdate(Browser)
    \/ Logout(Browser)
    \/ \E endpoint \in Endpoints, api_key \in ApiKeys : BuildExtractor(endpoint, api_key, "ok")
    \/ \E image \in Images, reply \in ReviewReplies : ReviewExtract(Browser, image, reply)
    \/ \E i \in DraftIndexes : ReviewSave(Browser, i)

SpecReview == Init /\ [][NextReview]_vars

====
